---- MODULE Spec2Model ----
(***************************************************************************)
(* Lifecycle core of the digit simulation: state.digits and the digit      *)
(* objects (model/digit.js), reproduction (model/reproduction.js), bond    *)
(* validation (model/validation.js), the movement dispatch that creates    *)
(* bonds (model/movement.js) and the per-frame sequence of tickSimulation  *)
(* (control/controls.js, the second half of main_DOM.js).                  *)
(*                                                                         *)
(* Digit objects are named by the order of their creation (1, 2, ...);     *)
(* Null (0) is JavaScript's null/undefined.  Ages are counted in frames.   *)
(* Positions and velocities are not part of the state: every place where   *)
(* the code compares a distance (findNearestFemale, the mateDistance       *)
(* test) reads it from an input drawn from DistSamples, because x/y are    *)
(* the result of Math.random() jitter accumulated over the frames.         *)
(***************************************************************************)
EXTENDS Integers, Sequences, FiniteSets, TLC

\* ------------------------------------------------------------------
\* Bounds of the model
\* ------------------------------------------------------------------
\* Number of digit objects ever created in one behaviour.
MaxDigits == 6
\* Number of animation-frame callbacks pending at one time.
MaxFrames == 2
\* Wall-clock time a behaviour of the frame clock covers, in frame
\* durations (1000 / FPS ms).
MaxTime == 6

\* Gestation timers of the fractional-gestation model are counted in
\* 1/FrameUnit of a frame; CONFIG.gestation ranges over 1..MaxGestation of
\* these, whole numbers of frames (multiples of FrameUnit) included
FrameUnit == 4
MaxGestation == 12
MaxBirths == 2

\* ------------------------------------------------------------------
\* CONFIG (config/config.js), in frames, scaled down so that a whole
\* life takes a handful of ticks.  The order of the thresholds is the
\* one of the defaults: matureAge < adolescenceAge < oldAge < maxAge,
\* and oldAge lies above the shortest individual maxAge.
\* ------------------------------------------------------------------
CONFIG_maxAge == 5
CONFIG_maxAgeVariation == 1
CONFIG_matureAge == 1
CONFIG_adolescenceAge == 2
CONFIG_oldAge == 5
\* CONFIG.gestation and CONFIG.POP_CAP are set through their setters
\* (gestationSec, POP_CAP); a behaviour starts from one of these settings.
GestationSettings == {1, 2}
PopCapSettings == {3, 5}
CONFIG_mateDistance == 40
CONFIG_attractionRadius == 300

\* Distances fed to the seeking behaviour: inside mateDistance, between
\* mateDistance and attractionRadius, and not inside attractionRadius.
DistSamples == {CONFIG_mateDistance, CONFIG_mateDistance + 1, CONFIG_attractionRadius}

\* Frame increments (elapsed seconds * FPS) a tick can see.
FrameIncrements == {1}

\* Offsets createDigit's Math.random() adds to CONFIG.maxAge.
MaxAgeDeltas == {0 - CONFIG_maxAgeVariation, 0}

Ids == 1..MaxDigits
Null == 0
Sexes == {"M", "F"}

VARIABLES
    CONFIG,          \* the settings of CONFIG that differ between behaviours
    digits,          \* state.digits: the live collection, in array order
    obj,             \* the digit objects, by identity
    nextId,          \* identity of the next object createDigit allocates
    running,         \* state.running
    pc,              \* position inside tickSimulation ("idle" between ticks)
    frameIncrement,  \* the tick's frameIncrement
    digitsSnapshot,  \* updateAllDigitsLifecycle's copy of state.digits
    frameActiveDigits, \* the list prepareFrameData keeps for renderAll
    currentCounts,   \* state.currentCounts[sex][name]
    epochCumulativeCounts, \* state.epochCumulativeCounts[sex][name]
    idx,             \* loop index of the per-digit loops
    distances,       \* what distance(d, f) returned to the seeking behaviour
                     \* of the latest updateDigitPosition(d) of the move loop
    frames,          \* callbacks handed to requestAnimationFrame, oldest first
    animationFrameId, \* state.animationFrameId: place in frames of the callback
                     \* it names; Null when null or when that callback has run
    call             \* a call of one helper on its own: the arguments and,
                     \* once made, the result

vars == <<CONFIG, digits, obj, nextId, running, pc, frameIncrement, digitsSnapshot, idx,
          distances, frames, animationFrameId, call, frameActiveDigits,
          currentCounts, epochCumulativeCounts>>

\* ------------------------------------------------------------------
\* Helpers on sequences
\* ------------------------------------------------------------------
Range(s) == {s[i] : i \in 1..Len(s)}

\* Array.prototype.filter((c) => c !== d)
FilterOut(s, d) == SelectSeq(s, LAMBDA c : c # d)

\* Array.prototype.filter(isAlive) for a given live set
FilterIn(s, keep) == SelectSeq(s, LAMBDA c : c \in keep)

\* ------------------------------------------------------------------
\* utils/helpers.js
\* ------------------------------------------------------------------
\* Number.prototype.toString() and parseInt() on the one-character names
DigitChars == <<"0", "1", "2", "3", "4", "5", "6", "7", "8", "9">>

toString(n) == DigitChars[n + 1]

parseInt(s) == CHOOSE n \in 0..9 : DigitChars[n + 1] = s

\* A digit sum that keeps the last digit only
digitSum_lastDigit(n) == n % 10

\* sum.toString().split('').reduce((acc, d) => acc + parseInt(d), 0)
RECURSIVE digitSum(_)
digitSum(n) == IF n < 10 THEN n ELSE (n % 10) + digitSum(n \div 10)

\* crossSum(a, b): let sum = a + b; while (sum > 9) sum = digit sum of sum
RECURSIVE reduceSum(_)
reduceSum(sum) == IF sum > 9 THEN reduceSum(digitSum(sum)) ELSE sum

crossSum(a, b) == reduceSum(a + b)

\* ------------------------------------------------------------------
\* model/state.js
\* ------------------------------------------------------------------
\* The keys of a counts object: the names 1..9
CountNames == {DigitChars[n + 1] : n \in 1..9}

createCountsObject == [s \in Sexes |-> [n \in CountNames |-> 0]]

\* ------------------------------------------------------------------
\* model/digit.js
\* ------------------------------------------------------------------
\* A slot of obj no createDigit has filled yet.
NoDigit ==
    [name |-> "", sex |-> "", age |-> 0, maxAge |-> 0, bondedTo |-> Null,
     gestationTimer |-> 0, mother |-> Null, father |-> Null,
     children |-> <<>>, attractionTarget |-> Null, moved |-> <<>>]

\* The object literal of createDigit (lines 19-35).  moved stands for the
\* velocity (dx, dy): the behaviours that wrote it, or left it alone, in the
\* digit's latest updateDigitPosition, in the order they ran.
newDigit(name, sex, mother, father, delta) ==
    [name |-> name, sex |-> sex, age |-> 0, maxAge |-> CONFIG_maxAge + delta,
     bondedTo |-> Null, gestationTimer |-> 0, mother |-> mother,
     father |-> father, children |-> <<>>, attractionTarget |-> Null,
     moved |-> <<>>]

\* validation.js isAlive(d): d && state.digits.includes(d)
isAlive(w, d) == d # Null /\ d \in Range(w.digits)

\* ------------------------------------------------------------------
\* model/movement.js: seeking and mating
\* ------------------------------------------------------------------
isValidMatingTarget(o, female) ==
    /\ o[female].sex = "F"
    /\ o[female].age >= CONFIG_matureAge
    /\ o[female].age < CONFIG_oldAge
    /\ o[female].gestationTimer = 0
    /\ o[female].bondedTo = Null

\* The scan of findNearestFemale from array index i on, with the running
\* minDistance and nearest; dist[f] is distance(male, f).
RECURSIVE nearestFrom(_, _, _, _, _)
nearestFrom(w, dist, i, minDistance, nearest) ==
    IF i > Len(w.digits) THEN nearest
    ELSE LET female == w.digits[i] IN
         IF ~isValidMatingTarget(w.obj, female)
         THEN nearestFrom(w, dist, i + 1, minDistance, nearest)
         ELSE IF dist[female] < minDistance
              THEN nearestFrom(w, dist, i + 1, dist[female], female)
              ELSE nearestFrom(w, dist, i + 1, minDistance, nearest)

\* findNearestFemale that also takes a female at exactly attractionRadius
findNearestFemale_atRadius(w, dist) ==
    nearestFrom(w, dist, 1, CONFIG_attractionRadius + 1, Null)

findNearestFemale(w, dist) == nearestFrom(w, dist, 1, CONFIG_attractionRadius, Null)

\* createBond that forgets the female's side of the link
createBond_oneSided(o, male, female) ==
    [o EXCEPT ![male].bondedTo = female,
              ![female].gestationTimer = CONFIG.gestation]

\* createBond that starts the gestation timer on both partners
createBond_timerOnBoth(o, male, female) ==
    [o EXCEPT ![male].bondedTo = female,
              ![male].gestationTimer = CONFIG.gestation,
              ![female].bondedTo = male,
              ![female].gestationTimer = CONFIG.gestation]

\* createBond that starts the timer one frame late
createBond_longTimer(o, male, female) ==
    [o EXCEPT ![male].bondedTo = female,
              ![female].bondedTo = male,
              ![female].gestationTimer = CONFIG.gestation + 1]

\* createBond that writes the male where the female belongs
createBond_maleTwice(o, male, female) ==
    [o EXCEPT ![male].bondedTo = male,
              ![female].bondedTo = male,
              ![female].gestationTimer = CONFIG.gestation]

createBond(o, male, female) ==
    [o EXCEPT ![male].bondedTo = female,
              ![female].bondedTo = male,
              ![female].gestationTimer = CONFIG.gestation]

\* The guards of the three specialised behaviours (each handler's first line).
handleChildMovement(o, d) ==
    ~(o[d].mother = Null \/ o[d].age >= CONFIG_adolescenceAge)

handleBondedMaleMovement(o, d) ==
    ~(o[d].sex # "M" \/ o[d].bondedTo = Null)

isSeekingMale(o, d) ==
    ~(o[d].sex # "M" \/ o[d].age < CONFIG_matureAge \/ o[d].age >= CONFIG_oldAge)

\* handleSeekingMaleMovement that bonds with a female who has a mate
handleSeekingMaleMovement_bondsWithTaken(w, d, dist) ==
    LET taken == {f \in Range(w.digits) :
                     w.obj[f].sex = "F" /\ w.obj[f].bondedTo # Null}
        targetFemale == findNearestFemale(w, dist)
        o == w.obj
    IN  IF taken # {} /\ o[d].bondedTo = Null
        THEN LET f == CHOOSE f \in taken : TRUE IN
             [w EXCEPT !.obj = [createBond(o, d, f) EXCEPT ![d].attractionTarget = f]]
        ELSE IF targetFemale # Null
        THEN LET bonded ==
                    IF /\ dist[targetFemale] <= CONFIG_mateDistance
                       /\ o[d].bondedTo = Null
                       /\ o[targetFemale].gestationTimer = 0
                    THEN createBond(o, d, targetFemale)
                    ELSE o
             IN [w EXCEPT !.obj = [bonded EXCEPT ![d].attractionTarget = targetFemale]]
        ELSE [w EXCEPT !.obj = [o EXCEPT ![d].attractionTarget = Null]]

\* handleSeekingMaleMovement that keeps a parent of a newborn from bonding
handleSeekingMaleMovement_cooldown(w, d, dist) ==
    LET targetFemale == findNearestFemale(w, dist)
        o == w.obj
        cooling(p) == \E c \in Range(o[p].children) : o[c].age = 0
    IN  IF targetFemale # Null
        THEN LET bonded ==
                    IF /\ dist[targetFemale] <= CONFIG_mateDistance
                       /\ o[d].bondedTo = Null
                       /\ o[targetFemale].gestationTimer = 0
                       /\ ~cooling(d)
                       /\ ~cooling(targetFemale)
                    THEN createBond(o, d, targetFemale)
                    ELSE o
             IN [w EXCEPT !.obj = [bonded EXCEPT ![d].attractionTarget = targetFemale]]
        ELSE [w EXCEPT !.obj = [o EXCEPT ![d].attractionTarget = Null]]

\* handleSeekingMaleMovement past its guard: bond when close enough, record
\* the target (the steering itself only changes dx/dy).
handleSeekingMaleMovement(w, d, dist) ==
    LET targetFemale == findNearestFemale(w, dist)
        o == w.obj
    IN  IF targetFemale # Null
        THEN LET bonded ==
                    IF /\ dist[targetFemale] <= CONFIG_mateDistance
                       /\ o[d].bondedTo = Null
                       /\ o[targetFemale].gestationTimer = 0
                    THEN createBond(o, d, targetFemale)
                    ELSE o
             IN [w EXCEPT !.obj = [bonded EXCEPT ![d].attractionTarget = targetFemale]]
        ELSE [w EXCEPT !.obj = [o EXCEPT ![d].attractionTarget = Null]]

\* The behaviour that has just run for d
Ran(w, d, behaviour) == [w EXCEPT !.obj[d].moved = Append(@, behaviour)]

\* applyJitterMovement(d): a new direction at a speed of at least
\* CONFIG.speed * JITTER.baseSpeed
applyJitterMovement(w, d) == Ran(w, d, "jitter")

\* updateDigitPosition that asks the seeking behaviour first
updateDigitPosition_seekFirst(w, d, dist) ==
    LET w0 == [w EXCEPT !.obj[d].moved = <<>>] IN
    IF isSeekingMale(w0.obj, d)
    THEN Ran(handleSeekingMaleMovement(w0, d, dist), d, "seek")
    ELSE IF handleChildMovement(w0.obj, d) THEN Ran(w0, d, "child")
    ELSE IF handleBondedMaleMovement(w0.obj, d) THEN Ran(w0, d, "orbit")
    ELSE applyJitterMovement(w0, d)

\* updateDigitPosition where a seeking male without target gets jitter too
updateDigitPosition_jitterWithoutTarget(w, d, dist) ==
    LET w0 == [w EXCEPT !.obj[d].moved = <<>>]
        sought == Ran(handleSeekingMaleMovement(w0, d, dist), d, "seek")
    IN  IF handleChildMovement(w0.obj, d) THEN Ran(w0, d, "child")
        ELSE IF handleBondedMaleMovement(w0.obj, d) THEN Ran(w0, d, "orbit")
        ELSE IF isSeekingMale(w0.obj, d)
             THEN IF sought.obj[d].attractionTarget = Null
                  THEN applyJitterMovement(sought, d) ELSE sought
        ELSE applyJitterMovement(w0, d)

\* updateDigitPosition(d): first matching behaviour wins; child orbit, mate
\* orbit and jitter change only the velocity; a handler that returns true
\* keeps applyJitterMovement from running.
updateDigitPosition(w, d, dist) ==
    LET w0 == [w EXCEPT !.obj[d].moved = <<>>] IN
    IF handleChildMovement(w0.obj, d) THEN Ran(w0, d, "child")
    ELSE IF handleBondedMaleMovement(w0.obj, d) THEN Ran(w0, d, "orbit")
    ELSE IF isSeekingMale(w0.obj, d)
         THEN Ran(handleSeekingMaleMovement(w0, d, dist), d, "seek")
    ELSE applyJitterMovement(w0, d)

\* No female in reach: what distance() gives a digit far from every other.
FarFromAll == [f \in Ids |-> CONFIG_attractionRadius]

\* createDigit: allocate, link to the parents, run updateDigitPosition on
\* the new object (age 0, not yet in state.digits), then push and count.
createDigit(w, name, sex, mother, father, delta) ==
    LET digit == w.nextId
        o1 == [w.obj EXCEPT ![digit] = newDigit(name, sex, mother, father, delta)]
        o2 == IF mother # Null
              THEN [o1 EXCEPT ![mother].children = Append(@, digit)] ELSE o1
        o3 == IF father # Null
              THEN [o2 EXCEPT ![father].children = Append(@, digit)] ELSE o2
        w1 == updateDigitPosition([w EXCEPT !.obj = o3], digit, FarFromAll)
    IN  [w1 EXCEPT !.digits = Append(@, digit),
                   !.nextId = digit + 1,
                   !.currentCounts[sex][name] = @ + 1,
                   !.epochCumulativeCounts[sex][name] = @ + 1]

\* killDigit that drops d from state.digits without the sweep
killDigit_noSweep(w, d) ==
    [w EXCEPT !.digits = FilterOut(w.digits, d)]

\* killDigit(d): sweep the live digits, take d off the current counts
\* (Math.max(0, count - 1)), then drop d from state.digits.
killDigit(w, d) ==
    [w EXCEPT
       !.obj = [other \in Ids |->
                  IF other \in Range(w.digits)
                  THEN [w.obj[other] EXCEPT
                          !.bondedTo = IF @ = d THEN Null ELSE @,
                          !.mother = IF @ = d THEN Null ELSE @,
                          !.children = FilterOut(@, d)]
                  ELSE w.obj[other]],
       !.currentCounts[w.obj[d].sex][w.obj[d].name] = IF @ - 1 > 0 THEN @ - 1 ELSE 0,
       !.digits = FilterOut(w.digits, d)]

\* ------------------------------------------------------------------
\* model/validation.js
\* ------------------------------------------------------------------
validateBonds(w, d) ==
    [w EXCEPT
       !.obj[d] = [@ EXCEPT
          !.bondedTo = IF @ # Null /\ ~isAlive(w, @) THEN Null ELSE @,
          !.mother = IF @ # Null /\ ~isAlive(w, @) THEN Null ELSE @,
          !.children = FilterIn(@, Range(w.digits))]]

\* updateAllDigits lines 491-493: validateBonds(d, true) for each live digit
RECURSIVE validateFrom(_, _)
validateFrom(w, i) ==
    IF i > Len(w.digits) THEN w
    ELSE validateFrom(validateBonds(w, w.digits[i]), i + 1)

\* ------------------------------------------------------------------
\* model/reproduction.js
\* ------------------------------------------------------------------
\* The for-of loop of reproduce() from array index i on.  rnd[f] holds the
\* Math.random() results of f's birth: the sex and the maxAge offset.
RECURSIVE reproduceFrom(_, _, _)
reproduceFrom(w, i, rnd) ==
    IF i > Len(w.digits) THEN w
    ELSE LET f == w.digits[i] IN
         IF w.obj[f].sex = "F" /\ w.obj[f].gestationTimer > 0
         THEN LET o1 == [w.obj EXCEPT ![f].gestationTimer = @ - 1] IN
              IF o1[f].gestationTimer = 0 /\ o1[f].bondedTo # Null
              THEN LET m == o1[f].bondedTo
                       name == toString(crossSum(parseInt(o1[f].name),
                                                 parseInt(o1[m].name)))
                       w2 == createDigit([w EXCEPT !.obj = o1], name,
                                         rnd[f].sex, f, m, rnd[f].delta)
                       o3 == [w2.obj EXCEPT ![f].bondedTo = Null,
                                            ![m].bondedTo = Null]
                   IN  reproduceFrom([w2 EXCEPT !.obj = o3], i + 1, rnd)
              ELSE reproduceFrom([w EXCEPT !.obj = o1], i + 1, rnd)
         ELSE reproduceFrom(w, i + 1, rnd)

\* reproduce() whose cap test lets a call at exactly POP_CAP through
reproduce_capOffByOne(w, rnd) ==
    IF Len(w.digits) > CONFIG.POP_CAP THEN w ELSE reproduceFrom(w, 1, rnd)

\* reproduce() that clears only the mother's side of the bond
RECURSIVE reproduceFrom_keepFatherBond(_, _, _)
reproduceFrom_keepFatherBond(w, i, rnd) ==
    IF i > Len(w.digits) THEN w
    ELSE LET f == w.digits[i] IN
         IF w.obj[f].sex = "F" /\ w.obj[f].gestationTimer > 0
         THEN LET o1 == [w.obj EXCEPT ![f].gestationTimer = @ - 1] IN
              IF o1[f].gestationTimer = 0 /\ o1[f].bondedTo # Null
              THEN LET m == o1[f].bondedTo
                       name == toString(crossSum(parseInt(o1[f].name),
                                                 parseInt(o1[m].name)))
                       w2 == createDigit([w EXCEPT !.obj = o1], name,
                                         rnd[f].sex, f, m, rnd[f].delta)
                       o3 == [w2.obj EXCEPT ![f].bondedTo = Null]
                   IN  reproduceFrom_keepFatherBond([w2 EXCEPT !.obj = o3], i + 1, rnd)
              ELSE reproduceFrom_keepFatherBond([w EXCEPT !.obj = o1], i + 1, rnd)
         ELSE reproduceFrom_keepFatherBond(w, i + 1, rnd)

reproduce_keepFatherBond(w, rnd) ==
    IF Len(w.digits) >= CONFIG.POP_CAP THEN w
    ELSE reproduceFrom_keepFatherBond(w, 1, rnd)

reproduce(w, rnd) ==
    IF Len(w.digits) >= CONFIG.POP_CAP THEN w ELSE reproduceFrom(w, 1, rnd)

\* ------------------------------------------------------------------
\* control/controls.js (main_DOM.js from line 129 on)
\* ------------------------------------------------------------------
\* createInitialDigit: createDigit without parents, then a fresh velocity
createInitialDigit(w, name, sex, delta) ==
    createDigit(w, name, sex, Null, Null, delta)

\* initStartingDigits that creates the male only
initStartingDigits_maleOnly(w, deltaM, deltaF) ==
    createInitialDigit(w, "1", "M", deltaM)

\* initStartingDigits: the male, then the female, both named '1'
initStartingDigits(w, deltaM, deltaF) ==
    createInitialDigit(createInitialDigit(w, "1", "M", deltaM), "1", "F", deltaF)

\* resetSimulation: state.digits = [], then the starting pair, then a
\* fresh state.epochCumulativeCounts
resetSimulation(w, deltaM, deltaF) ==
    [initStartingDigits([w EXCEPT !.digits = <<>>], deltaM, deltaF)
        EXCEPT !.epochCumulativeCounts = createCountsObject]

\* updateDigitLifecycle that kills at age >= maxAge
updateDigitLifecycle_killAtMaxAge(w, digit, inc) ==
    LET aged == [w EXCEPT !.obj[digit].age = @ + inc] IN
    IF aged.obj[digit].age >= aged.obj[digit].maxAge
    THEN killDigit(aged, digit)
    ELSE aged

\* updateDigitLifecycle(digit, frameIncrement): age, (attractor), death
updateDigitLifecycle(w, digit, inc) ==
    LET aged == [w EXCEPT !.obj[digit].age = @ + inc] IN
    IF aged.obj[digit].age > aged.obj[digit].maxAge
    THEN killDigit(aged, digit)
    ELSE aged

\* ------------------------------------------------------------------
\* model/movement.js: integration and walls; movement/collision.js
\* Lengths are whole pixels and velocities whole pixels per frame; the
\* factors 0.8 and 0.9 are fractions, applied to values they divide.
\* ------------------------------------------------------------------
CONFIG_speed == 5
WALL_margin == 5
WALL_topMargin == 40
WALL_bounceDamping == [num |-> 4, den |-> 5]

\* v * q for a fraction q
Times(v, q) == (v * q.num) \div q.den

\* calculateBounds that leaves WALL.margin out
calculateBounds_noMargin(radius, window) ==
    [left |-> radius,
     right |-> window.innerWidth - radius,
     top |-> WALL_topMargin + radius,
     bottom |-> window.innerHeight - radius]

calculateBounds(radius, window) ==
    [left |-> radius + WALL_margin,
     right |-> window.innerWidth - radius - WALL_margin,
     top |-> WALL_topMargin + radius + WALL_margin,
     bottom |-> window.innerHeight - radius - WALL_margin]

updatePosition(d) == [d EXCEPT !.x = @ + d.dx, !.y = @ + d.dy]

\* bounceOffWalls(d); radius is (CONFIG.digitSize * scale) / 2 of the
\* digit's cached appearance.
bounceOffWalls(d, radius, window) ==
    LET bounds == calculateBounds(radius, window)
        h == IF d.x < bounds.left
             THEN [d EXCEPT !.x = bounds.left,
                            !.dx = 0 - Times(@, WALL_bounceDamping)]
             ELSE IF d.x > bounds.right
             THEN [d EXCEPT !.x = bounds.right,
                            !.dx = 0 - Times(@, WALL_bounceDamping)]
             ELSE d
    IN  IF h.y < bounds.top
        THEN [h EXCEPT !.y = bounds.top,
                       !.dy = 0 - Times(@, WALL_bounceDamping)]
        ELSE IF h.y > bounds.bottom
        THEN [h EXCEPT !.y = bounds.bottom,
                       !.dy = 0 - Times(@, WALL_bounceDamping)]
        ELSE h

\* Math.hypot(dx, dy) where it is a whole number
hypot(dx, dy) ==
    CHOOSE r \in 0..(dx * dx + dy * dy) : r * r = dx * dx + dy * dy

\* The options updateAllDigits passes to resolveDigitCollisions
CollisionOptions ==
    [bounceFactor |-> [num |-> 9, den |-> 10], minSeparation |-> 2,
     maxIterations |-> 3, applyVelocity |-> TRUE]

\* render.js calculateScale(d): 0.3 + Math.min(d.age / CONFIG.matureAge, 1) * 0.7
calculateScale(d) ==
    [num |-> 3 * CONFIG_matureAge
               + 7 * (IF d.age < CONFIG_matureAge THEN d.age ELSE CONFIG_matureAge),
     den |-> 10 * CONFIG_matureAge]

\* The radius of bounceOffWalls (lines 432-433) and the half size the
\* renderer draws: (CONFIG.digitSize * scale) / 2 with the scale of
\* getCachedAppearance(d), which is calculateScale(d).
appearanceRadius(d, digitSize) ==
    [num |-> digitSize * calculateScale(d).num, den |-> 2 * calculateScale(d).den]

\* (CONFIG.digitSize * (A.scale || 1)) / 2
collisionRadius(A, digitSize) ==
    (digitSize * (IF A.scale = Null THEN 1 ELSE A.scale)) \div 2

\* The body of the pair loop of resolveDigitCollisions (lines 33-62)
resolvePair(A, B, digitSize, options) ==
    LET dx == B.x - A.x
        dy == B.y - A.y
        dist == hypot(dx, dy)
        minDist == collisionRadius(A, digitSize) + collisionRadius(B, digitSize)
                       + options.minSeparation
    IN  IF dist < minDist /\ dist > 0
        THEN LET overlap == minDist - dist
                 \* (overlap / 2) * nx with nx = dx / dist
                 pushX == (overlap * dx) \div (2 * dist)
                 pushY == (overlap * dy) \div (2 * dist)
                 dot == ((B.dx - A.dx) * dx + (B.dy - A.dy) * dy) \div dist
                 impulse == IF options.applyVelocity
                            THEN Times(dot, options.bounceFactor) ELSE 0
                 ix == (impulse * dx) \div dist
                 iy == (impulse * dy) \div dist
             IN  <<[A EXCEPT !.x = @ - pushX, !.y = @ - pushY,
                             !.dx = @ + ix, !.dy = @ + iy],
                   [B EXCEPT !.x = @ + pushX, !.y = @ + pushY,
                             !.dx = @ - ix, !.dy = @ - iy]>>
        ELSE <<A, B>>

\* The loops over i and j > i, from the pair (i, j) on
RECURSIVE collideFrom(_, _, _, _, _)
collideFrom(ds, i, j, digitSize, options) ==
    IF i > Len(ds) THEN ds
    ELSE IF j > Len(ds) THEN collideFrom(ds, i + 1, i + 2, digitSize, options)
    ELSE LET r == resolvePair(ds[i], ds[j], digitSize, options) IN
         collideFrom([ds EXCEPT ![i] = r[1], ![j] = r[2]], i, j + 1, digitSize, options)

\* The loop over iter
RECURSIVE resolveFrom(_, _, _, _)
resolveFrom(ds, iter, digitSize, options) ==
    IF iter >= options.maxIterations THEN ds
    ELSE resolveFrom(collideFrom(ds, 1, 2, digitSize, options), iter + 1,
                     digitSize, options)

resolveDigitCollisions(ds, digitSize, options) == resolveFrom(ds, 0, digitSize, options)

\* The program's heap as one value
World ==
    [digits |-> digits, obj |-> obj, nextId |-> nextId,
     currentCounts |-> currentCounts,
     epochCumulativeCounts |-> epochCumulativeCounts]

\* An object that has left state.digits is never read again: killDigit and
\* validateBonds walk state.digits only, and reproduce() reaches a mate
\* only through a live female's bondedTo.  The model keeps the identity of
\* such an object (references to it stay comparable) and drops its fields.
forget(w) ==
    [d \in Ids |-> IF d \in Range(w.digits) THEN w.obj[d] ELSE NoDigit]

\* Room for n more digit objects within MaxDigits
HasRoom(n) == nextId + n <= MaxDigits + 1

SetWorld(w) ==
    /\ digits' = w.digits
    /\ obj' = forget(w)
    /\ nextId' = w.nextId
    /\ currentCounts' = w.currentCounts
    /\ epochCumulativeCounts' = w.epochCumulativeCounts

\* A tick that enters updateAllDigits before updateAllDigitsLifecycle
TickEntry_movementFirst(w) ==
    /\ \E inc \in FrameIncrements : frameIncrement' = inc
    /\ frameActiveDigits' = w.digits
    /\ digitsSnapshot' = w.digits
    /\ idx' = 1
    /\ pc' = "validate"

\* Entry of tickSimulation up to the snapshot of updateAllDigitsLifecycle
\* (state.paused is false): prepareFrameData() keeps state.digits as it is
\* now, then updateAllDigitsLifecycle copies it.
TickEntry(w) ==
    /\ \E inc \in FrameIncrements : frameIncrement' = inc
    /\ frameActiveDigits' = w.digits
    /\ digitsSnapshot' = w.digits
    /\ idx' = 1
    /\ pc' = IF Len(w.digits) = 0 THEN "reproduce" ELSE "lifecycle"

\* requestAnimationFrame(callback) and cancelAnimationFrame(id) on the
\* browser's list of pending callbacks
requestAnimationFrame(q, callback) == Append(q, callback)

cancelAnimationFrame(q, id) ==
    [i \in 1..(Len(q) - 1) |-> IF i < id THEN q[i] ELSE q[i + 1]]

\* The browser takes the oldest pending callback off its list to run it;
\* state.animationFrameId then names a callback that is pending no more.
AfterFrame(id) == IF id = Null \/ id = 1 THEN Null ELSE id - 1

InitWorld ==
    /\ CONFIG \in [gestation : GestationSettings, POP_CAP : PopCapSettings]
    /\ digits = <<>>
    /\ obj = [d \in Ids |-> NoDigit]
    /\ nextId = 1
    /\ running = FALSE
    /\ pc = "idle"
    /\ frameIncrement = 0
    /\ digitsSnapshot = <<>>
    /\ idx = 1
    /\ distances = <<>>
    /\ frames = <<>>
    /\ animationFrameId = Null
    /\ frameActiveDigits = <<>>
    /\ currentCounts = createCountsObject
    /\ epochCumulativeCounts = createCountsObject

\* No helper is called on its own in a run of the simulation
NoCall == [fn |-> "none"]

Init == InitWorld /\ call = NoCall

\* startSimulation() with q the pending callbacks at the call: nothing when
\* already running; else reset when the population is empty (which leaves
\* a startSimulation callback pending), then the first tick.
startSimulation(q) ==
    IF running
    THEN /\ frames' = q
         /\ UNCHANGED <<CONFIG, call, digits, obj, nextId, currentCounts, epochCumulativeCounts, running, pc, frameIncrement,
                        digitsSnapshot, frameActiveDigits, idx, distances>>
    ELSE /\ running' = TRUE
         /\ UNCHANGED <<CONFIG, call, distances>>
         /\ Len(digits) = 0 => HasRoom(2)
         /\ frames' = IF Len(digits) = 0
                      THEN requestAnimationFrame(q, "startSimulation") ELSE q
         /\ \E deltaM \in MaxAgeDeltas, deltaF \in MaxAgeDeltas :
              LET w == IF Len(digits) = 0
                       THEN resetSimulation(World, deltaM, deltaF) ELSE World
              IN  SetWorld(w) /\ TickEntry(w)

\* A call of startSimulation() by the page (load, restart button)
StartSimulation ==
    /\ pc = "idle"
    /\ running \/ Len(frames) + (IF Len(digits) = 0 THEN 2 ELSE 1) <= MaxFrames
    /\ startSimulation(frames)
    /\ UNCHANGED animationFrameId

\* The callback "() => startSimulation()" that initStartingDigits queued
StartFrame ==
    /\ pc = "idle"
    /\ frames # <<>>
    /\ Head(frames) = "startSimulation"
    /\ startSimulation(Tail(frames))
    /\ animationFrameId' = AfterFrame(animationFrameId)

\* stopSimulation() that leaves the pending tick frame alone
StopSimulation_noCancel ==
    /\ pc = "idle"
    /\ running' = FALSE
    /\ animationFrameId' = Null
    /\ UNCHANGED <<CONFIG, call, digits, obj, nextId, currentCounts, epochCumulativeCounts,
                   pc, frameIncrement, digitsSnapshot, frameActiveDigits, idx,
                   distances, frames>>

\* stopSimulation()
StopSimulation ==
    /\ pc = "idle"
    /\ running' = FALSE
    /\ IF animationFrameId # Null
       THEN /\ frames' = cancelAnimationFrame(frames, animationFrameId)
            /\ animationFrameId' = Null
       ELSE UNCHANGED <<frames, animationFrameId>>
    /\ UNCHANGED <<CONFIG, call, digits, obj, nextId, currentCounts, epochCumulativeCounts, pc, frameIncrement, digitsSnapshot, frameActiveDigits, idx,
                   distances>>

\* The restart button: stopSimulation(); resetSimulation(); updateStats();
\* startSimulation().  stopSimulation cancels the tick frame, resetSimulation
\* empties state.digits, creates the starting pair and leaves a
\* startSimulation callback pending, and startSimulation, finding
\* state.running false and state.digits not empty, runs the first tick.
Restart ==
    /\ pc = "idle"
    /\ HasRoom(2)
    /\ LET stopped == IF animationFrameId # Null
                      THEN cancelAnimationFrame(frames, animationFrameId)
                      ELSE frames
           reset == requestAnimationFrame(stopped, "startSimulation")
       IN  /\ Len(reset) + 1 <= MaxFrames
           /\ frames' = reset
    /\ animationFrameId' = Null
    /\ running' = TRUE
    /\ \E deltaM \in MaxAgeDeltas, deltaF \in MaxAgeDeltas :
         LET w == resetSimulation(World, deltaM, deltaF) IN
         SetWorld(w) /\ TickEntry(w)
    /\ UNCHANGED <<CONFIG, call, distances>>

\* A call of resetSimulation() on its own, between two frames
ResetSimulation ==
    /\ pc = "idle"
    /\ HasRoom(2)
    /\ Len(frames) + 1 <= MaxFrames
    /\ frames' = requestAnimationFrame(frames, "startSimulation")
    /\ \E deltaM \in MaxAgeDeltas, deltaF \in MaxAgeDeltas :
         SetWorld(resetSimulation(World, deltaM, deltaF))
    /\ UNCHANGED <<CONFIG, call, running, pc, frameIncrement, digitsSnapshot,
                   frameActiveDigits, idx, distances, animationFrameId>>

\* The tickSimulation callback requested at the end of an earlier tick
Tick ==
    /\ pc = "idle"
    /\ frames # <<>>
    /\ Head(frames) = "tickSimulation"
    /\ frames' = Tail(frames)
    /\ animationFrameId' = AfterFrame(animationFrameId)
    /\ TickEntry(World)
    /\ UNCHANGED <<CONFIG, call, digits, obj, nextId, currentCounts, epochCumulativeCounts, running, distances>>

\* One iteration of "for (const digit of digitsSnapshot)"
LifecycleStep ==
    /\ pc = "lifecycle"
    /\ idx <= Len(digitsSnapshot)
    /\ SetWorld(updateDigitLifecycle(World, digitsSnapshot[idx], frameIncrement))
    /\ idx' = idx + 1
    /\ pc' = IF idx = Len(digitsSnapshot) THEN "reproduce" ELSE "lifecycle"
    /\ UNCHANGED <<CONFIG, call, running, frameIncrement, digitsSnapshot, frameActiveDigits, distances, frames,
                   animationFrameId>>

\* Females whose timer reaches zero with a mate in this reproduce() call
Due ==
    {f \in Range(digits) :
        /\ obj[f].sex = "F"
        /\ obj[f].gestationTimer > 0
        /\ obj[f].gestationTimer - 1 = 0
        /\ obj[f].bondedTo # Null}

Reproduce ==
    /\ pc = "reproduce"
    /\ Len(digits) < CONFIG.POP_CAP => HasRoom(Cardinality(Due))
    /\ \E rnd \in [Due -> [sex : Sexes, delta : MaxAgeDeltas]] :
         SetWorld(reproduce(World, rnd))
    /\ pc' = "reseed"
    /\ UNCHANGED <<CONFIG, call, running, frameIncrement, digitsSnapshot, frameActiveDigits, idx, distances,
                   frames, animationFrameId>>

\* A tick whose updateAllDigits starts with the movement loop
ReseedCheck_skipValidation ==
    /\ pc = "reseed"
    /\ Len(digits) = 0 => HasRoom(2)
    /\ IF Len(digits) = 0
       THEN /\ \E deltaM \in MaxAgeDeltas, deltaF \in MaxAgeDeltas :
                 SetWorld(resetSimulation(World, deltaM, deltaF))
            /\ frames' = requestAnimationFrame(frames, "startSimulation")
       ELSE UNCHANGED <<digits, obj, nextId, currentCounts, epochCumulativeCounts, frames>>
    /\ pc' = "move"
    /\ idx' = 1
    /\ UNCHANGED <<CONFIG, call, running, frameIncrement, digitsSnapshot, frameActiveDigits, distances,
                   animationFrameId>>

\* "if (state.digits.length === 0) resetSimulation()"
ReseedCheck ==
    /\ pc = "reseed"
    /\ Len(digits) = 0 => HasRoom(2)
    /\ IF Len(digits) = 0
       THEN /\ \E deltaM \in MaxAgeDeltas, deltaF \in MaxAgeDeltas :
                 SetWorld(resetSimulation(World, deltaM, deltaF))
            /\ frames' = requestAnimationFrame(frames, "startSimulation")
       ELSE UNCHANGED <<digits, obj, nextId, currentCounts, epochCumulativeCounts, frames>>
    /\ pc' = "validate"
    /\ UNCHANGED <<CONFIG, call, running, frameIncrement, digitsSnapshot, frameActiveDigits, idx, distances,
                   animationFrameId>>

\* updateAllDigits, first loop
ValidateAll ==
    /\ pc = "validate"
    /\ SetWorld(validateFrom(World, 1))
    /\ idx' = 1
    /\ pc' = IF Len(digits) = 0 THEN "collide" ELSE "move"
    /\ UNCHANGED <<CONFIG, call, running, frameIncrement, digitsSnapshot, frameActiveDigits, distances, frames,
                   animationFrameId>>

\* Females the seeking male d can see: the inputs of distance(d, f)
Candidates == {f \in Range(digits) : isValidMatingTarget(obj, f)}

\* updateAllDigits, second loop: updateDigitPosition(digits[idx])
MoveStep ==
    /\ pc = "move"
    /\ idx <= Len(digits)
    /\ \E dist \in [Candidates -> DistSamples] :
         LET w == updateDigitPosition(World, digits[idx], dist) IN
         /\ SetWorld(w)
         /\ distances' = IF "seek" \in Range(w.obj[digits[idx]].moved)
                         THEN dist ELSE <<>>
    /\ idx' = idx + 1
    /\ pc' = IF idx = Len(digits) THEN "collide" ELSE "move"
    /\ UNCHANGED <<CONFIG, call, running, frameIncrement, digitsSnapshot, frameActiveDigits, frames, animationFrameId>>

\* resolveDigitCollisions(digits, ...): positions and velocities only
Collide ==
    /\ pc = "collide"
    /\ pc' = "integrate"
    /\ distances' = <<>>
    /\ UNCHANGED <<CONFIG, call, digits, obj, nextId, currentCounts, epochCumulativeCounts, running, frameIncrement, digitsSnapshot, frameActiveDigits,
                   idx, frames, animationFrameId>>

\* updatePosition and bounceOffWalls for every digit, then updateStats,
\* renderAll and, when state.running, the next requestAnimationFrame
Integrate ==
    /\ pc = "integrate"
    /\ pc' = "idle"
    /\ IF running
       THEN /\ frames' = requestAnimationFrame(frames, "tickSimulation")
            /\ animationFrameId' = Len(frames) + 1
       ELSE UNCHANGED <<frames, animationFrameId>>
    /\ UNCHANGED <<CONFIG, call, digits, obj, nextId, currentCounts, epochCumulativeCounts, running, frameIncrement, digitsSnapshot, frameActiveDigits, idx,
                   distances>>

Next ==
    \/ StartSimulation
    \/ StartFrame
    \/ StopSimulation
    \/ Tick
    \/ LifecycleStep
    \/ Reproduce
    \/ ReseedCheck
    \/ ValidateAll
    \/ MoveStep
    \/ Collide
    \/ Integrate

Spec == Init /\ [][Next]_vars

\* ------------------------------------------------------------------
\* The simulation with the page's restart button and with calls of
\* resetSimulation() on its own, from one setting of CONFIG
\* ------------------------------------------------------------------
InitControl == Init /\ CONFIG = [gestation |-> 1, POP_CAP |-> 3]

NextControl == Next \/ Restart \/ ResetSimulation

SpecControl == InitControl /\ [][NextControl]_vars

\* ------------------------------------------------------------------
\* config/config.js: the POP_CAP setter, called between two ticks of a
\* running simulation
\* ------------------------------------------------------------------
\* [...state.digits].sort((a, b) => a.age - b.age): youngest first, digits
\* of one age in array order
RECURSIVE sortByAge(_, _)
sortByAge(o, ds) ==
    IF ds = <<>> THEN <<>>
    ELSE LET i == CHOOSE i \in 1..Len(ds) :
                    \A j \in 1..Len(ds) :
                       \/ o[ds[i]].age < o[ds[j]].age
                       \/ o[ds[i]].age = o[ds[j]].age /\ i <= j
         IN  <<ds[i]>> \o sortByAge(o, SubSeq(ds, 1, i - 1) \o SubSeq(ds, i + 1, Len(ds)))

\* The digits the setter ages: sorted[0 .. excess - 1] when the new value is
\* below the old cap and below the population, else none
agedByCap(w, oldCap, value) ==
    IF value < oldCap /\ Len(w.digits) > value
    THEN Range(SubSeq(sortByAge(w.obj, w.digits), 1, Len(w.digits) - value))
    ELSE {}

\* Values the POP_CAP slider is moved to
PopCapValues == {1, 2, 5}

\* set POP_CAP(value), once in a behaviour; call keeps the arguments and
\* the digits it aged
SetPopCap ==
    /\ pc = "idle"
    /\ call = NoCall
    /\ \E value \in PopCapValues :
         LET aged == agedByCap(World, CONFIG.POP_CAP, value) IN
         /\ CONFIG' = [CONFIG EXCEPT !.POP_CAP = value]
         /\ obj' = [d \in Ids |->
                      IF d \in aged THEN [obj[d] EXCEPT !.age = CONFIG_oldAge]
                      ELSE obj[d]]
         /\ call' = [fn |-> "POP_CAP", oldCap |-> CONFIG.POP_CAP, value |-> value,
                     population |-> digits, ages |-> [d \in Ids |-> obj[d].age],
                     aged |-> aged]
    /\ UNCHANGED <<digits, nextId, currentCounts, epochCumulativeCounts, running, pc,
                   frameIncrement, digitsSnapshot, frameActiveDigits, idx, distances,
                   frames, animationFrameId>>

\* A running simulation between two ticks, with three digits whose mothers
\* are gone, of any ages below oldAge and of any maxAge createDigit gives
\* (CONFIG.maxAge - variation .. CONFIG.maxAge + variation)
PopulationAges == {1, 3}
PopulationDeltas == {0 - CONFIG_maxAgeVariation, 0, CONFIG_maxAgeVariation}
PopulationSexes == <<"M", "F", "F">>

InitPopCap ==
    /\ CONFIG = [gestation |-> 2, POP_CAP |-> 3]
    /\ digits = <<1, 2, 3>>
    /\ \E ages \in [1..3 -> PopulationAges], deltas \in [1..3 -> PopulationDeltas] :
         obj = [d \in Ids |->
                  IF d \in 1..3
                  THEN [newDigit("1", PopulationSexes[d], Null, Null, deltas[d])
                           EXCEPT !.age = ages[d], !.moved = <<"jitter">>]
                  ELSE NoDigit]
    /\ nextId = 4
    /\ running = TRUE
    /\ pc = "idle"
    /\ frameIncrement = 1
    /\ digitsSnapshot = digits
    /\ frameActiveDigits = digits
    /\ idx = 1
    /\ distances = <<>>
    /\ frames = <<"tickSimulation">>
    /\ animationFrameId = 1
    /\ currentCounts = [createCountsObject EXCEPT !["M"]["1"] = 1, !["F"]["1"] = 2]
    /\ epochCumulativeCounts = currentCounts
    /\ call = NoCall

NextPopCap ==
    \/ SetPopCap
    \/ StartFrame
    \/ Tick
    \/ LifecycleStep
    \/ Reproduce
    \/ ReseedCheck
    \/ ValidateAll
    \/ MoveStep
    \/ Collide
    \/ Integrate

SpecPopCap == InitPopCap /\ [][NextPopCap]_vars

\* ------------------------------------------------------------------
\* main_DOM.js: the frame clock of tickSimulation and the pause button.
\* Times are in frame durations, so that deltaSeconds * CONFIG.FPS is the
\* difference of two times.  call holds performance.now(), lastFrameTime,
\* state.paused, the age of one digit that stays alive, and the time that
\* has passed with state.paused false since that digit's age was 0.
\* ------------------------------------------------------------------
calculateFrameIncrement(currentTime, lastFrameTime) == currentTime - lastFrameTime

InitClock ==
    /\ InitWorld
    /\ call = [fn |-> "clock", now |-> 0, lastFrameTime |-> 0, paused |-> FALSE,
               age |-> 0, unpaused |-> 0]

\* Time passes between two events
Elapse ==
    /\ call.now < MaxTime
    /\ call' = [call EXCEPT !.now = @ + 1,
                            !.unpaused = IF call.paused THEN @ ELSE @ + 1]
    /\ UNCHANGED <<CONFIG, digits, obj, nextId, currentCounts, epochCumulativeCounts,
                   running, pc, frameIncrement, digitsSnapshot, frameActiveDigits,
                   idx, distances, frames, animationFrameId>>

\* The pause button: state.paused = !state.paused
PauseClick ==
    /\ call' = [call EXCEPT !.paused = ~@]
    /\ UNCHANGED <<CONFIG, digits, obj, nextId, currentCounts, epochCumulativeCounts,
                   running, pc, frameIncrement, digitsSnapshot, frameActiveDigits,
                   idx, distances, frames, animationFrameId>>

\* tickSimulation(currentTime) as far as time goes: when not paused,
\* calculateFrameIncrement (which moves lastFrameTime) and
\* "digit.age += frameIncrement"; when paused, nothing
TickClock ==
    /\ call' = IF call.paused THEN call
               ELSE [call EXCEPT
                       !.lastFrameTime = call.now,
                       !.age = @ + calculateFrameIncrement(call.now, call.lastFrameTime)]
    /\ UNCHANGED <<CONFIG, digits, obj, nextId, currentCounts, epochCumulativeCounts,
                   running, pc, frameIncrement, digitsSnapshot, frameActiveDigits,
                   idx, distances, frames, animationFrameId>>

NextClock ==
    \/ Elapse
    \/ PauseClick
    \/ TickClock

SpecClock == InitClock /\ [][NextClock]_vars

\* ------------------------------------------------------------------
\* model/movement.js, model/reproduction.js, model/digit.js: the gestation
\* timer of one female when CONFIG.gestation = gestationSec * FPS need not
\* be a whole number of frames.  call holds CONFIG.gestation and the
\* female's gestationTimer, both in 1/FrameUnit of a frame, whether her
\* bondedTo is set, and the number of her births.
\* ------------------------------------------------------------------
InitGestation ==
    /\ InitWorld
    /\ \E gestation \in 1..MaxGestation :
          call = [fn |-> "gestation", gestation |-> gestation,
                  gestationTimer |-> 0, bondedTo |-> FALSE, births |-> 0]

\* "f.gestationTimer--": one frame less
decrementTimer(gestationTimer) == gestationTimer - FrameUnit

\* A male reaches the female: isValidMatingTarget's tests of gestationTimer
\* and bondedTo, then createBond
BondFemale ==
    /\ call.births < MaxBirths
    /\ call.gestationTimer = 0
    /\ ~call.bondedTo
    /\ call' = [call EXCEPT !.bondedTo = TRUE,
                            !.gestationTimer = call.gestation]
    /\ UNCHANGED <<CONFIG, digits, obj, nextId, currentCounts, epochCumulativeCounts,
                   running, pc, frameIncrement, digitsSnapshot, frameActiveDigits,
                   idx, distances, frames, animationFrameId>>

\* The female's turn in the loop of a reproduce() call made below the cap:
\* "if (f.gestationTimer > 0) { f.gestationTimer--; if (f.gestationTimer
\* === 0 && f.bondedTo) { createDigit(...); f.bondedTo = null } }"
ReproduceFemale ==
    /\ call' = IF call.gestationTimer > 0
               THEN LET timer == decrementTimer(call.gestationTimer) IN
                    IF timer = 0 /\ call.bondedTo
                    THEN [call EXCEPT !.gestationTimer = timer,
                                      !.bondedTo = FALSE,
                                      !.births = @ + 1]
                    ELSE [call EXCEPT !.gestationTimer = timer]
               ELSE call
    /\ UNCHANGED <<CONFIG, digits, obj, nextId, currentCounts, epochCumulativeCounts,
                   running, pc, frameIncrement, digitsSnapshot, frameActiveDigits,
                   idx, distances, frames, animationFrameId>>

\* killDigit(mate): "if (other.bondedTo === d) other.bondedTo = null"
MateDies ==
    /\ call.bondedTo
    /\ call' = [call EXCEPT !.bondedTo = FALSE]
    /\ UNCHANGED <<CONFIG, digits, obj, nextId, currentCounts, epochCumulativeCounts,
                   running, pc, frameIncrement, digitsSnapshot, frameActiveDigits,
                   idx, distances, frames, animationFrameId>>

NextGestation ==
    \/ BondFemale
    \/ ReproduceFemale
    \/ MateDies

SpecGestation == InitGestation /\ [][NextGestation]_vars

\* ------------------------------------------------------------------
\* The helpers called on their own, on arguments drawn from small sets
\* ------------------------------------------------------------------
\* Names are the digits 0..9
Names == 0..(Len(DigitChars) - 1)

CrossSumCalls == [fn : {"crossSum"}, a : Names, b : Names, done : {FALSE}, sum : {0}]

\* window.innerWidth / innerHeight: too small for the bounds, and ample
WindowSizes == {40, 200}
\* (CONFIG.digitSize * scale) / 2 at birth and fully grown
Radii == {5, 18}
Velocities == {0 - CONFIG_speed, 0, CONFIG_speed}
Places == {0 - 10, 0, 23, 100, 177, 250}

Kinematics == [x : Places, y : Places, dx : Velocities, dy : Velocities]

IntegrateCalls ==
    [fn : {"integrate"}, d : Kinematics, radius : Radii,
     window : [innerWidth : WindowSizes, innerHeight : WindowSizes],
     before : {<<>>}, done : {FALSE}]

\* CONFIG.digitSize: Math.min(Math.max(window.innerWidth / 15, 30), 36)
DigitSizes == {30, 36}
\* Centre distances, along one axis: none, inside the radii, inside the
\* separation margin, apart, and the two seeds of initStartingDigits
Offsets == {0, 2, 10, 30, 36, 40, 60}

\* Two digits, B at the given offset from A along the x or the y axis
Pairs ==
    {<<[x |-> 100, y |-> 100, dx |-> va, dy |-> 0, scale |-> Null],
       [x |-> 100 + sx * off, y |-> 100 + sy * off, dx |-> vb, dy |-> 0, scale |-> Null]>> :
        off \in Offsets, sx \in {0 - 1, 0, 1}, sy \in {0 - 1, 0, 1},
        va \in {0 - CONFIG_speed, CONFIG_speed},
        vb \in {0 - CONFIG_speed, CONFIG_speed}}

AxisPairs == {p \in Pairs : p[1].x = p[2].x \/ p[1].y = p[2].y}

CollisionCalls ==
    [fn : {"resolveDigitCollisions"}, digits : AxisPairs, digitSize : DigitSizes,
     options : {CollisionOptions, [CollisionOptions EXCEPT !.maxIterations = 1]},
     before : {<<>>}, done : {FALSE}]

\* A digit as createDigit leaves it (its object literal has no scale
\* property, and nothing assigns one later), at an age from birth to past
\* matureAge
RadiusCalls ==
    [fn : {"radius"}, d : [age : 0..(CONFIG_matureAge + 1), scale : {Null}],
     digitSize : DigitSizes, done : {FALSE}, collision : {0},
     appearance : {[num |-> 0, den |-> 1]}]

InitHelpers ==
    /\ InitWorld
    /\ call \in CrossSumCalls \cup IntegrateCalls \cup CollisionCalls \cup RadiusCalls

CallCrossSum ==
    /\ call.fn = "crossSum"
    /\ ~call.done
    /\ call' = [call EXCEPT !.sum = crossSum(call.a, call.b), !.done = TRUE]
    /\ UNCHANGED <<CONFIG, digits, obj, nextId, currentCounts, epochCumulativeCounts, running, pc, frameIncrement,
                   digitsSnapshot, frameActiveDigits, idx, distances, frames, animationFrameId>>

\* updateAllDigits lines 509-514 for one digit
CallIntegrate ==
    /\ call.fn = "integrate"
    /\ ~call.done
    /\ call' = [call EXCEPT
                  !.before = call.d,
                  !.d = bounceOffWalls(updatePosition(@), call.radius, call.window),
                  !.done = TRUE]
    /\ UNCHANGED <<CONFIG, digits, obj, nextId, currentCounts, epochCumulativeCounts, running, pc, frameIncrement,
                   digitsSnapshot, frameActiveDigits, idx, distances, frames, animationFrameId>>

CallResolveDigitCollisions ==
    /\ call.fn = "resolveDigitCollisions"
    /\ ~call.done
    /\ call' = [call EXCEPT
                  !.before = call.digits,
                  !.digits = resolveDigitCollisions(@, call.digitSize, call.options),
                  !.done = TRUE]
    /\ UNCHANGED <<CONFIG, digits, obj, nextId, currentCounts, epochCumulativeCounts, running, pc, frameIncrement,
                   digitsSnapshot, frameActiveDigits, idx, distances, frames, animationFrameId>>

\* The radius resolveDigitCollisions computes for a digit (lines 26, 31)
\* and the one bounceOffWalls and the renderer compute for it
CallRadius ==
    /\ call.fn = "radius"
    /\ ~call.done
    /\ call' = [call EXCEPT
                  !.collision = collisionRadius(call.d, call.digitSize),
                  !.appearance = appearanceRadius(call.d, call.digitSize),
                  !.done = TRUE]
    /\ UNCHANGED <<CONFIG, digits, obj, nextId, currentCounts, epochCumulativeCounts, running, pc, frameIncrement,
                   digitsSnapshot, frameActiveDigits, idx, distances, frames, animationFrameId>>

NextHelpers ==
    \/ CallCrossSum
    \/ CallIntegrate
    \/ CallResolveDigitCollisions
    \/ CallRadius

SpecHelpers == InitHelpers /\ [][NextHelpers]_vars

\* ==================================================================
\* Properties
\* ==================================================================
Live == Range(digits)

\* C1: bondedTo is symmetric among live digits: for all live A and B,
\* A.bondedTo = B implies B.bondedTo = A, in every reachable state.
C1_BondSymmetric ==
    \A a \in Live, b \in Live :
        obj[a].bondedTo = b => obj[b].bondedTo = a

\* A bonded pair, both alive, between two ticks.
C1_Witness ==
    /\ pc = "idle"
    /\ \E a \in Live, b \in Live :
         obj[a].bondedTo = b /\ obj[b].bondedTo = a /\ a # b

\* C2: every relational reference held by a live digit (bondedTo, mother,
\* father, attractionTarget, each entry of children) is null or a live digit.
C2_NoGhostPointer ==
    \A a \in Live :
        /\ obj[a].bondedTo \in Live \cup {Null}
        /\ obj[a].mother \in Live \cup {Null}
        /\ obj[a].father \in Live \cup {Null}
        /\ obj[a].attractionTarget \in Live \cup {Null}
        /\ Range(obj[a].children) \subseteq Live

\* C3: killDigit(d) removes d from state.digits; no remaining digit then has
\* bondedTo = d, mother = d or d among its children, and a digit that was
\* bonded to d ends with bondedTo = null.
C3_KillSevers ==
    [][\A d \in Live :
          (pc = "lifecycle" /\ d = digitsSnapshot[idx]
             /\ obj[d].age + frameIncrement > obj[d].maxAge)
          => /\ d \notin Range(digits')
             /\ \A o \in Range(digits') :
                  /\ obj'[o].bondedTo # d
                  /\ obj'[o].mother # d
                  /\ d \notin Range(obj'[o].children)
                  /\ obj[o].bondedTo = d => obj'[o].bondedTo = Null]_vars

\* A digit of this tick's snapshot has been killed, leaving a female whose
\* mate is gone in mid-gestation and a child that lost its mother.
C3_Witness ==
    /\ pc \in {"lifecycle", "reproduce"}
    /\ \E d \in Range(digitsSnapshot) : d \notin Live
    /\ \E f \in Live : obj[f].gestationTimer > 0 /\ obj[f].bondedTo = Null
    /\ \E c \in Live : obj[c].father # Null /\ obj[c].mother = Null

\* C4 as stated: the number of live digits never exceeds POP_CAP.
C4_PopWithinCap == Len(digits) <= CONFIG.POP_CAP

\* The most a reproduce() call can leave behind: it starts with at most
\* POP_CAP - 1 digits and every birth needs a bonded pair of its own.
PopCeiling(cap) ==
    LET over == (cap - 1) + ((cap - 1) \div 2)
    IN  IF over > cap THEN over ELSE cap

\* C4 (amended): the population never exceeds POP_CAP - 1 plus one birth
\* per pair alive at the start of a reproduce() call, i.e.
\* max(POP_CAP, POP_CAP - 1 + floor((POP_CAP - 1) / 2)).
C4_PopWithinCeiling == Len(digits) <= PopCeiling(CONFIG.POP_CAP)

\* reproduce() has just taken the population from below the cap to above it.
C4_Witness ==
    /\ pc = "reseed"
    /\ Len(digits) > CONFIG.POP_CAP
    /\ Len(digits) = PopCeiling(CONFIG.POP_CAP)

\* C5 as stated: a live digit with a nonzero gestationTimer is female and
\* has a non-null bondedTo.
C5_GestatingIsBondedFemale ==
    \A d \in Live :
        obj[d].gestationTimer # 0 =>
            obj[d].sex = "F" /\ obj[d].bondedTo # Null

\* C5 (amended): a live digit with a nonzero gestationTimer is female; her
\* bondedTo is non-null when the timer is set and stays her mate while the
\* timer is nonzero, unless the mate leaves state.digits (killDigit clears
\* her bondedTo and leaves the timer running).
C5_GestatingIsFemaleBondedUntilMateDies ==
    /\ [](\A d \in Live : obj[d].gestationTimer # 0 => obj[d].sex = "F")
    /\ [][\A f \in Live \cap Range(digits') :
            /\ (obj[f].gestationTimer = 0 /\ obj'[f].gestationTimer # 0)
                  => obj'[f].bondedTo # Null
            /\ (obj[f].gestationTimer # 0 /\ obj'[f].gestationTimer # 0
                  /\ obj[f].bondedTo # Null)
                  => \/ obj'[f].bondedTo = obj[f].bondedTo
                     \/ obj[f].bondedTo \notin Range(digits')]_vars

\* A female still gestating after her mate was killed in this tick.
C5_Witness ==
    /\ pc \in {"lifecycle", "reproduce"}
    /\ \E f \in Live :
         /\ obj[f].sex = "F"
         /\ obj[f].gestationTimer # 0
         /\ obj[f].bondedTo = Null
         /\ \E m \in Range(digitsSnapshot) : m \notin Live

\* C6: a digit whose age after the tick's increment exceeds its maxAge is
\* out of state.digits when the lifecycle loop ends, before reproduce() and
\* the movement run; a digit whose age is at most its maxAge is not removed.
C6_AgedOutRemovedInTick ==
    /\ [](pc \in {"reproduce", "reseed", "validate", "move"} =>
            \A d \in Range(digitsSnapshot) \cap Live :
                obj[d].age <= obj[d].maxAge)
    /\ [][pc = "lifecycle" =>
            \A d \in Live :
                (d \notin Range(digits')) <=>
                    (d = digitsSnapshot[idx]
                       /\ obj[d].age + frameIncrement > obj[d].maxAge)]_vars

\* The lifecycle loop is over: one digit of the snapshot was removed and
\* another survives with its age exactly at its maxAge.
C6_Witness ==
    /\ pc = "reproduce"
    /\ \E d \in Range(digitsSnapshot) : d \notin Live
    /\ \E e \in Range(digitsSnapshot) \cap Live : obj[e].age = obj[e].maxAge

Newborn == Range(digits') \ Live

\* C8: when a seeking male bonds with an eligible female her gestationTimer
\* becomes CONFIG.gestation; with both parents alive and the population
\* below POP_CAP each reproduce() call lowers the timer by one without a
\* birth until the call that brings it to zero, which creates exactly one
\* digit named crossSum(mother.name, father.name) and leaves both parents'
\* bondedTo null; the timer changes nowhere else.
C8_MatingToBirth ==
    [][\A f \in {d \in Live \cap Range(digits') : obj[d].sex = "F"} :
         LET m == obj[f].bondedTo
             t == obj[f].gestationTimer
             offspring == {c \in Newborn : obj'[c].mother = f}
         IN
         /\ (obj[f].bondedTo = Null /\ obj'[f].bondedTo # Null) =>
               /\ pc = "move"
               /\ obj'[f].bondedTo = digits[idx]
               /\ isSeekingMale(obj, digits[idx])
               /\ isValidMatingTarget(obj, f)
               /\ obj'[f].gestationTimer = CONFIG.gestation
         /\ (pc = "reproduce" /\ Len(digits) < CONFIG.POP_CAP
               /\ m \in Live /\ t > 1) =>
               /\ obj'[f].gestationTimer = t - 1
               /\ offspring = {}
               /\ obj'[f].bondedTo = m
               /\ obj'[m].bondedTo = f
         /\ (pc = "reproduce" /\ Len(digits) < CONFIG.POP_CAP
               /\ m \in Live /\ t = 1) =>
               /\ obj'[f].gestationTimer = 0
               /\ Cardinality(offspring) = 1
               /\ \A c \in offspring :
                    obj'[c].name = toString(crossSum(parseInt(obj'[f].name),
                                                     parseInt(obj'[m].name)))
               /\ obj'[f].bondedTo = Null
               /\ obj'[m].bondedTo = Null
         /\ (obj'[f].gestationTimer # t) =>
               \/ pc = "move" /\ t = 0 /\ obj[f].bondedTo = Null
               \/ pc = "reproduce" /\ obj'[f].gestationTimer = t - 1]_vars

\* The second reproduce() call after a bond made with gestation = 2 has
\* just produced the pair's child; both parents are alive and unbonded.
C8_Witness ==
    /\ pc = "reseed"
    /\ CONFIG.gestation = 2
    /\ \E c \in Live :
         /\ obj[c].age = 0
         /\ obj[c].mother \in Live
         /\ obj[c].father \in Live
         /\ obj[c].name = toString(crossSum(parseInt(obj[obj[c].mother].name),
                                            parseInt(obj[obj[c].father].name)))
         /\ obj[obj[c].mother].bondedTo = Null
         /\ obj[obj[c].father].bondedTo = Null

\* C9: every digit reproduce() creates has a live mother f and a live father
\* m who were bonded to each other, both with bondedTo null when the call
\* returns; a gestation that completes with a mate yields exactly one digit.
C9_BirthClearsBond ==
    [][pc = "reproduce" =>
         /\ \A c \in Newborn :
              LET f == obj'[c].mother
                  m == obj'[c].father
              IN  /\ f \in Live /\ m \in Live
                  /\ f \in Range(digits') /\ m \in Range(digits')
                  /\ obj[f].bondedTo = m /\ obj[m].bondedTo = f
                  /\ obj'[f].bondedTo = Null /\ obj'[m].bondedTo = Null
                  /\ c \in Range(obj'[f].children)
                  /\ c \in Range(obj'[m].children)
         /\ \A f \in Live :
              Cardinality({c \in Newborn : obj'[c].mother = f}) =
                 (IF Len(digits) < CONFIG.POP_CAP /\ f \in Due THEN 1 ELSE 0)]_vars

\* One reproduce() call has just created two digits for two different pairs.
C9_Witness ==
    /\ pc = "reseed"
    /\ \E c1 \in Live, c2 \in Live :
         /\ obj[c1].age = 0 /\ obj[c2].age = 0
         /\ obj[c1].mother \in Live /\ obj[c2].mother \in Live
         /\ obj[c1].mother # obj[c2].mother
         /\ obj[c1].father \in Live /\ obj[c2].father \in Live
         /\ obj[c1].father # obj[c2].father

\* C10: a reproduce() call that starts with state.digits.length >= POP_CAP
\* changes nothing: no digit is created, no timer decremented, no bond cleared.
C10_NoOpAtCap ==
    [][(pc = "reproduce" /\ Len(digits) >= CONFIG.POP_CAP)
          => (digits' = digits /\ obj' = obj /\ nextId' = nextId)]_vars

\* reproduce() has returned at the cap from a state where a bonded female's
\* timer stood at 1: the timer is still 1 and the pair is still bonded.
C10_Witness ==
    /\ pc = "reseed"
    /\ Len(digits) >= CONFIG.POP_CAP
    /\ \E f \in Live :
         /\ obj[f].gestationTimer = 1
         /\ CONFIG.gestation = 1
         /\ obj[f].bondedTo \in Live

\* C11: a tick that finds the population empty at its reseed check creates
\* exactly one male and one female, both named "1"; nothing is added or
\* removed in the rest of the tick, both have had their velocity drawn by
\* applyJitterMovement (speed >= CONFIG.speed * JITTER.baseSpeed > 0) when
\* the tick ends, and no tick ends with an empty population.
C11_ReseedGivesPair ==
    /\ [][(pc = "reseed" /\ Len(digits) = 0) =>
            /\ Len(digits') = 2
            /\ \E m, f \in Range(digits') :
                 /\ obj'[m].sex = "M"
                 /\ obj'[f].sex = "F"
            /\ \A d \in Range(digits') :
                 /\ obj'[d].name = "1"
                 /\ obj'[d].age = 0
                 /\ d \notin Live]_vars
    /\ [][(pc \in {"validate", "move", "collide", "integrate"}) => digits' = digits]_vars
    /\ [](pc = "idle" =>
            \A d \in Live :
               (obj[d].age = 0 /\ obj[d].mother = Null /\ obj[d].father = Null)
                   => obj[d].moved = <<"jitter">>)
    /\ [](pc = "idle" /\ nextId > 1 => Len(digits) > 0)

\* A tick has ended with the pair of a reseed that followed an extinction.
C11_Witness ==
    /\ pc = "idle"
    /\ nextId > 3
    /\ Len(digits) = 2
    /\ \A d \in Live : obj[d].age = 0 /\ obj[d].mother = Null /\ obj[d].father = Null

\* The behaviour the dispatch rule of C12 names for digit d
FirstMatch(d) ==
    IF obj[d].mother # Null /\ obj[d].age < CONFIG_adolescenceAge THEN "child"
    ELSE IF obj[d].sex = "M" /\ obj[d].bondedTo # Null THEN "orbit"
    ELSE IF /\ obj[d].sex = "M"
            /\ CONFIG_matureAge <= obj[d].age
            /\ obj[d].age < CONFIG_oldAge THEN "seek"
    ELSE "jitter"

\* C12: each updateDigitPosition(d) of the move loop runs exactly one
\* behaviour, the first that matches of child-follow, mate-orbit, seeking,
\* idle jitter; the call createDigit makes on a new digit runs exactly one too.
C12_OneBehaviourFirstMatch ==
    /\ [][pc = "move" => obj'[digits[idx]].moved = <<FirstMatch(digits[idx])>>]_vars
    /\ [](\A d \in Live : Len(obj[d].moved) = 1)

\* The move loop has ended with digits that ran each of the four behaviours.
C12_Witness ==
    /\ pc = "collide"
    /\ {obj[d].moved : d \in Live} = {<<"child">>, <<"orbit">>, <<"seek">>, <<"jitter">>}

\* A male of seeking age without mate, not following his mother, is next
\* in the move loop and no live digit is a valid mating target.
SeeksInVain ==
    /\ pc = "move"
    /\ obj[digits[idx]].sex = "M"
    /\ obj[digits[idx]].bondedTo = Null
    /\ CONFIG_matureAge <= obj[digits[idx]].age
    /\ obj[digits[idx]].age < CONFIG_oldAge
    /\ ~(/\ obj[digits[idx]].mother # Null
         /\ obj[digits[idx]].age < CONFIG_adolescenceAge)
    /\ Candidates = {}

Pos(d) == CHOOSE i \in 1..Len(digits) : digits[i] = d

\* Qualifying females: sex F, matureAge <= age < oldAge, no gestation, no mate
Qualifying ==
    {f \in Live :
        /\ obj[f].sex = "F"
        /\ CONFIG_matureAge <= obj[f].age
        /\ obj[f].age < CONFIG_oldAge
        /\ obj[f].gestationTimer = 0
        /\ obj[f].bondedTo = Null}

\* target is null when within is empty, else the member of within at the
\* smallest distance, the earliest of state.digits among equals
NearestOf(within, dist, target) ==
    /\ target = Null <=> within = {}
    /\ target # Null =>
         /\ target \in within
         /\ \A g \in within :
              \/ dist[target] < dist[g]
              \/ dist[target] = dist[g] /\ Pos(target) <= Pos(g)

\* C14 as stated: findNearestFemale looks among the qualifying females not
\* farther than attractionRadius.
C14_NearestNotFartherThanRadius ==
    [][(pc = "move" /\ "seek" \in Range(obj'[digits[idx]].moved)) =>
          NearestOf({f \in Qualifying : distances'[f] <= CONFIG_attractionRadius},
                    distances', obj'[digits[idx]].attractionTarget)]_vars

\* C14: findNearestFemale(male) returns null exactly when no qualifying
\* female is at a distance strictly below attractionRadius; otherwise the
\* qualifying female at minimal distance, the earliest in state.digits
\* among equidistant ones.
C14_NearestBelowRadius ==
    [][(pc = "move" /\ "seek" \in Range(obj'[digits[idx]].moved)) =>
          /\ DOMAIN distances' = Qualifying
          /\ NearestOf({f \in Qualifying : distances'[f] < CONFIG_attractionRadius},
                       distances', obj'[digits[idx]].attractionTarget)]_vars

\* A seeking male has chosen the earlier of two equidistant qualifying
\* females while a third one stood at exactly attractionRadius.
C14_Witness ==
    /\ pc \in {"move", "collide"}
    /\ idx > 1
    /\ \E f, g, h \in DOMAIN distances :
         /\ f # g
         /\ distances[f] = distances[g]
         /\ distances[f] < CONFIG_attractionRadius
         /\ distances[h] = CONFIG_attractionRadius
         /\ Pos(f) < Pos(g)
         /\ obj[digits[idx - 1]].attractionTarget = f

\* C15: the movement loop of updateAllDigits starts only from the end of
\* the validation loop, which has gone through every live digit, so while
\* behaviours are dispatched every digit's mother and bondedTo are null or
\* live digits.
C15_ValidatedBeforeMovement ==
    /\ [][(pc' = "move" /\ pc # "move") =>
            /\ pc = "validate"
            /\ digits' = digits
            /\ \A d \in Live :
                 /\ obj'[d].bondedTo =
                      IF obj[d].bondedTo \in Live THEN obj[d].bondedTo ELSE Null
                 /\ obj'[d].mother =
                      IF obj[d].mother \in Live THEN obj[d].mother ELSE Null]_vars
    /\ [](pc = "move" =>
            \A d \in Live :
               /\ obj[d].bondedTo \in Live \cup {Null}
               /\ obj[d].mother \in Live \cup {Null})

\* The movement loop is running in a tick whose lifecycle loop killed a
\* digit, with a bonded pair and a digit that has its mother.
C15_Witness ==
    /\ pc = "move"
    /\ \E d \in Range(digitsSnapshot) : d \notin Live
    /\ \E b \in Live : obj[b].bondedTo # Null
    /\ \E c \in Live : obj[c].mother # Null

\* C16: once stopSimulation() has set state.running to false, running
\* becomes true again (and a tick runs) only through a call of
\* startSimulation() that is not one of the pending animation-frame
\* callbacks: the step takes no callback off the list.
C16_StoppedUntilStartCall ==
    [][(~running /\ running') =>
          /\ Len(frames') >= Len(frames)
          /\ SubSeq(frames', 1, Len(frames)) = frames]_vars

\* C17: for a, b in 0..9, crossSum(a, b) is the digital root of a + b (0
\* for 0, else 1 + ((a + b - 1) mod 9)); for parents named 1..9 it is in
\* 1..9, and the name written from it is one digit character that reads
\* back as the same number.
C17_CrossSumIsDigitalRoot ==
    (call.fn = "crossSum" /\ call.done) =>
        /\ call.sum = IF call.a + call.b = 0 THEN 0
                      ELSE 1 + ((call.a + call.b - 1) % 9)
        /\ (call.a \in 1..9 /\ call.b \in 1..9) =>
              /\ call.sum \in 1..9
              /\ toString(call.sum) \in {"1", "2", "3", "4", "5", "6", "7", "8", "9"}
              /\ parseInt(toString(call.sum)) = call.sum

\* crossSum(7, 8) has returned 6: a sum above 9 went through the loop.
C17_Witness ==
    /\ call.fn = "crossSum"
    /\ call.done
    /\ call.a = 7
    /\ call.b = 8
    /\ call.sum = 6

\* C18: every bond pairs a male with a female, and no live digit is the
\* bondedTo of two different live digits; a male that is processed after
\* another male has bonded with a female in the same tick does not bond
\* with her.
C18_BondExclusive ==
    /\ [](\A a \in Live :
            obj[a].bondedTo # Null =>
               /\ obj[a].bondedTo \in Live
               /\ obj[a].sex # obj[obj[a].bondedTo].sex)
    /\ [](\A a, b \in Live :
            (a # b /\ obj[a].bondedTo # Null) => obj[a].bondedTo # obj[b].bondedTo)
    /\ [][(pc = "move" /\ obj[digits[idx]].bondedTo = Null
                       /\ obj'[digits[idx]].bondedTo # Null) =>
            /\ obj[obj'[digits[idx]].bondedTo].bondedTo = Null
            /\ obj[obj'[digits[idx]].bondedTo].gestationTimer = 0]_vars

\* A female has bonded in this tick's move loop, and a second male of
\* seeking age, processed after her mate, has stayed without mate.
C18_Witness ==
    /\ pc \in {"move", "collide"}
    /\ \E f, m, n \in Live :
         /\ obj[f].sex = "F"
         /\ obj[f].bondedTo = m
         /\ obj[f].gestationTimer = CONFIG.gestation
         /\ n # m
         /\ obj[n].sex = "M"
         /\ obj[n].bondedTo = Null
         /\ obj[n].moved = <<"seek">>
         /\ Pos(m) < Pos(n)
         /\ Pos(n) < idx
         /\ obj[m].moved = <<"seek">>

\* The walls of C19 for the call at hand
WallLeft == call.radius + WALL_margin
WallRight == call.window.innerWidth - call.radius - WALL_margin
WallTop == WALL_topMargin + call.radius + WALL_margin
WallBottom == call.window.innerHeight - call.radius - WALL_margin

\* C19: after updatePosition and bounceOffWalls the digit lies within
\* [radius+margin, width-radius-margin] x [topMargin+radius+margin,
\* height-radius-margin] when these ranges are not empty; for a wall it had
\* crossed the velocity component across that wall is turned round and
\* multiplied by 0.8, and on an axis where it was inside nothing changes.
C19_BounceKeepsInside ==
    (call.fn = "integrate" /\ call.done) =>
        LET px == call.before.x + call.before.dx
            py == call.before.y + call.before.dy
        IN  /\ (WallLeft <= WallRight /\ WallTop <= WallBottom) =>
                  /\ WallLeft <= call.d.x
                  /\ call.d.x <= WallRight
                  /\ WallTop <= call.d.y
                  /\ call.d.y <= WallBottom
            /\ IF px < WallLeft \/ px > WallRight
               THEN 5 * call.d.dx = 0 - 4 * call.before.dx
               ELSE call.d.dx = call.before.dx /\ call.d.x = px
            /\ IF py < WallTop \/ py > WallBottom
               THEN 5 * call.d.dy = 0 - 4 * call.before.dy
               ELSE call.d.dy = call.before.dy /\ call.d.y = py

\* A moving digit has crossed the left wall and the bottom wall of an
\* ample viewport in one step and been put back on both.
C19_Witness ==
    /\ call.fn = "integrate"
    /\ call.done
    /\ WallLeft <= WallRight
    /\ WallTop <= WallBottom
    /\ call.before.x + call.before.dx < WallLeft
    /\ call.before.y + call.before.dy > WallBottom
    /\ call.before.dx # 0
    /\ call.d.x = WallLeft
    /\ call.d.y = WallBottom

\* Centre distance of a pair of digits
CentreDistance(pair) == hypot(pair[2].x - pair[1].x, pair[2].y - pair[1].y)

\* C20: two digits whose centre distance is smaller than the sum of their
\* radii, two digits at the same place included, are farther apart after
\* resolveDigitCollisions has gone over them.
C20_PassSeparates ==
    (/\ call.fn = "resolveDigitCollisions"
     /\ call.done
     /\ CentreDistance(call.before)
            < collisionRadius(call.before[1], call.digitSize)
                + collisionRadius(call.before[2], call.digitSize))
        => CentreDistance(call.digits) > CentreDistance(call.before)

\* C21: the radius resolveDigitCollisions uses for a digit is
\* digitSize * scale / 2 with the scale of the renderer and of
\* bounceOffWalls (0.3 at age 0, 1.0 from matureAge on); at age 0 it is
\* 30% of digitSize / 2.
C21_CollisionRadiusFollowsScale ==
    (call.fn = "radius" /\ call.done) =>
        /\ call.collision * call.appearance.den = call.appearance.num
        /\ call.d.age = 0 => 20 * call.collision = 3 * call.digitSize

\* C22: the list renderAll gets at the end of a tick is the live collection
\* as it is then: no digit killed in the tick is in it and every digit born
\* or reseeded in the tick is.
C22_RenderedIsLive ==
    pc = "integrate" => frameActiveDigits = digits

\* Number of live digits of a sex and name
LiveCount(sex, name) ==
    Cardinality({d \in Live : obj[d].sex = sex /\ obj[d].name = name})

\* C23: state.currentCounts[s][n] is the number of live digits of sex s and
\* name n, whatever createDigit, killDigit, ticks and resets (a restart
\* with digits alive included) have run.
C23_CountsMatchLive ==
    \A sex \in Sexes, name \in CountNames :
       currentCounts[sex][name] = LiveCount(sex, name)

\* C30: from the first resetSimulation on, epochCumulativeCounts[s][n] is
\* at least currentCounts[s][n] for every sex and name: it counts the
\* digits created since the last reset, the seed pair included.
C30_EpochCountsCoverCurrent ==
    nextId > 1 =>
       \A sex \in Sexes, name \in CountNames :
          epochCumulativeCounts[sex][name] >= currentCounts[sex][name]

\* C24: no live digit is its own mate, mother, father or child.
C24_NoSelfReference ==
    \A A \in Live :
       /\ obj[A].bondedTo # A
       /\ obj[A].mother # A
       /\ obj[A].father # A
       /\ A \notin Range(obj[A].children)

\* A bonded pair is alive together with a child of theirs that has both
\* parents and is in the children of both.
C24_Witness ==
    \E c, f, m \in Live :
       /\ obj[c].mother = f
       /\ obj[c].father = m
       /\ c \in Range(obj[f].children)
       /\ c \in Range(obj[m].children)
       /\ obj[f].bondedTo = m
       /\ obj[m].bondedTo = f

\* C29: a birth leaves no cooldown.  reproduce() leaves both parents of a
\* newborn without mate and the mother's timer at 0, and in the move loop
\* a male of seeking age without mate who has a valid target within
\* mateDistance bonds (her timer set to CONFIG.gestation), whether or not
\* either of them became a parent in this tick.
C29_NoCooldown ==
    /\ [][pc = "reproduce" =>
            \A c \in Range(digits') \ Live :
               /\ obj'[obj'[c].mother].bondedTo = Null
               /\ obj'[obj'[c].father].bondedTo = Null
               /\ obj'[obj'[c].mother].gestationTimer = 0]_vars
    /\ [][(/\ pc = "move"
           /\ FirstMatch(digits[idx]) = "seek"
           /\ \E f \in Candidates : distances'[f] <= CONFIG_mateDistance) =>
            /\ obj'[digits[idx]].bondedTo \in Candidates
            /\ obj'[obj'[digits[idx]].bondedTo].bondedTo = digits[idx]
            /\ obj'[obj'[digits[idx]].bondedTo].gestationTimer = CONFIG.gestation]_vars

\* The parents of a digit born in this tick's reproduce() have bonded with
\* each other again in the move loop of the same tick.
C29_Witness ==
    /\ pc \in {"move", "collide"}
    /\ \E c, f, m \in Live :
         /\ c \notin Range(digitsSnapshot)
         /\ obj[c].age = 0
         /\ obj[c].mother = f
         /\ obj[c].father = m
         /\ obj[f].bondedTo = m
         /\ obj[m].bondedTo = f
         /\ obj[f].gestationTimer = CONFIG.gestation

\* The tickSimulation callbacks that are pending
PendingTicks == {i \in 1..Len(frames) : frames[i] = "tickSimulation"}

\* C26: whatever the order of startSimulation, stopSimulation,
\* resetSimulation and restart calls and of animation frames, at most one
\* tickSimulation callback is pending, it is the one
\* state.animationFrameId names, and the simulation is then running; a
\* startSimulation() that finds state.running true changes nothing (the
\* callback that made the call leaves the browser's list, nothing else).
C26_OneTickLoop ==
    /\ [](Cardinality(PendingTicks) <= 1)
    /\ [](\A i \in PendingTicks : running /\ animationFrameId = i)
    /\ [][(/\ running
           /\ pc = "idle"
           /\ frames # <<>>
           /\ Head(frames) = "startSimulation"
           /\ frames' = Tail(frames)) =>
            UNCHANGED <<CONFIG, digits, obj, nextId, running, pc, currentCounts,
                        epochCumulativeCounts, frameActiveDigits>>]_vars

\* After a stop and a new start with the startSimulation callback of a
\* reset still pending, that callback is about to run with the simulation
\* running and one tick frame pending.
C26_Witness ==
    /\ pc = "idle"
    /\ running
    /\ frames = <<"startSimulation", "tickSimulation">>
    /\ animationFrameId = 2
    /\ Len(digits) > 2

\* The n youngest of the digits in population by the ages given (any n
\* digits such that no digit left out is younger than one of them)
Youngest(these, population, ages, n) ==
    /\ these \subseteq Range(population)
    /\ Cardinality(these) = n
    /\ \A d \in these, e \in Range(population) \ these : ages[d] <= ages[e]

\* C25: when POP_CAP is set to a value below its old value and below the
\* population, the (population - value) youngest digits are gone from
\* state.digits when the next tick has gone through its lifecycle loop.
C25_ExcessKilledByNextTick ==
    (/\ call.fn = "POP_CAP"
     /\ call.value < call.oldCap
     /\ call.value < Len(call.population)
     /\ pc = "integrate") =>
        \E these \in SUBSET Range(call.population) :
           /\ Youngest(these, call.population, call.ages,
                       Len(call.population) - call.value)
           /\ these \cap Live = {}

\* C27: paused time does not age a digit: its age, in frames, is never more
\* than the time that has passed with state.paused false.
C27_PausedTimeDoesNotAge ==
    call.fn = "clock" => call.age <= call.unpaused
\* C28: for every positive CONFIG.gestation, whole or not, a female's
\* gestationTimer is never negative, and whenever it is not 0 some number of
\* further reproduce calls brings it back to exactly 0.
RECURSIVE TimerAfter(_, _)
TimerAfter(gestationTimer, calls) ==
    IF calls = 0 \/ gestationTimer <= 0 THEN gestationTimer
    ELSE TimerAfter(decrementTimer(gestationTimer), calls - 1)

C28_GestationTimerReturnsToZero ==
    call.fn = "gestation" =>
        /\ call.gestationTimer >= 0
        /\ TimerAfter(call.gestationTimer, MaxGestation) = 0

====
